---- MODULE Spec2Model ----
(***************************************************************************)
(* async-variadic: the AsyncFn trait and the ary! macro of src/src/lib.rs. *)
(*                                                                         *)
(* AsyncFn::call is declared with #[async_trait], so the method the macro  *)
(* generates is                                                            *)
(*     fn call(&self, args) -> Pin<Box<dyn Future<Output = Fut::Output>>>  *)
(*         { Box::pin(async move { let (A, B, ..) = args;                  *)
(*                                 (self)(A, B, ..).await }) }             *)
(* The model follows one shared callable `func` through trait resolution   *)
(* (which ary! instantiation, if any, applies to it) and through the life  *)
(* of up to MaxCalls futures returned by call: created, polled (the first  *)
(* poll destructures the tuple, invokes the function and polls its         *)
(* future), completed, unwound by a panic, or dropped by the caller.       *)
(***************************************************************************)
EXTENDS Integers, Sequences, FiniteSets

VARIABLES
    func,      \* the callable value (Func) every call borrows as &self
    resolved,  \* trait resolution of `func: AsyncFn<_, _>`
    outer,     \* per call: state of the boxed future returned by call
    args,      \* per call: the argument tuple passed to call
    recv,      \* per call: the positional arguments the function received
    invoked,   \* per call: how many times the function was invoked
    inner,     \* per call: state of the function's own future (Fut)
    polls,     \* per call: how many times Fut was polled
    produced,  \* per call: what the function / its future itself produced
    result     \* per call: what the caller of call obtained

vars == <<func, resolved, outer, args, recv, invoked, inner, polls, produced, result>>

callVars(c) == <<outer[c], args[c], recv[c], invoked[c], inner[c], polls[c], produced[c], result[c]>>

----------------------------------------------------------------------------
(* Bounds of the model *)

\* concurrent calls made on the shared callable
MaxCalls == 2
\* largest number of declared (non-receiver) parameters of a candidate function
MaxParams == 13
\* how many times a function's future may answer Pending
MaxPending == 1
\* how many different argument tuples are tried per arity
NBases == 2
\* bodies other than "digest" are tried on functions of at most this many parameters
MaxSmall == 1

\* the largest arity an ary! line is written for
MaxArity == 12

Calls == 1..MaxCalls

----------------------------------------------------------------------------
(* The arity generator *)

\* faulty variant: the last line, ary! { A B C D E F G H I J K L }, is missing
InstantiationsShort ==
    << <<>>,
       <<"A">>,
       <<"A", "B">>,
       <<"A", "B", "C">>,
       <<"A", "B", "C", "D">>,
       <<"A", "B", "C", "D", "E">>,
       <<"A", "B", "C", "D", "E", "F">>,
       <<"A", "B", "C", "D", "E", "F", "G">>,
       <<"A", "B", "C", "D", "E", "F", "G", "H">>,
       <<"A", "B", "C", "D", "E", "F", "G", "H", "I">>,
       <<"A", "B", "C", "D", "E", "F", "G", "H", "I", "J">>,
       <<"A", "B", "C", "D", "E", "F", "G", "H", "I", "J", "K">> >>

\* ary! {} ... ary! { A B C D E F G H I J K L }
Instantiations ==
    << <<>>,
       <<"A">>,
       <<"A", "B">>,
       <<"A", "B", "C">>,
       <<"A", "B", "C", "D">>,
       <<"A", "B", "C", "D", "E">>,
       <<"A", "B", "C", "D", "E", "F">>,
       <<"A", "B", "C", "D", "E", "F", "G">>,
       <<"A", "B", "C", "D", "E", "F", "G", "H">>,
       <<"A", "B", "C", "D", "E", "F", "G", "H", "I">>,
       <<"A", "B", "C", "D", "E", "F", "G", "H", "I", "J">>,
       <<"A", "B", "C", "D", "E", "F", "G", "H", "I", "J", "K">>,
       <<"A", "B", "C", "D", "E", "F", "G", "H", "I", "J", "K", "L">> >>

\* the tuple pattern of call's parameter: ($($param,)*)
Pattern(params) == params

\* faulty variant: the identifiers are passed in the opposite order
CallArgsReversed(params) == [i \in 1..Len(params) |-> params[Len(params) + 1 - i]]

\* the argument list of the invocation: (self)($($param,)*)
CallArgs(params) == params

\* one expansion of the macro: AsyncFn<($($param,)*), Fut::Output> for Func
ary(params) ==
    [bound |-> Len(params), pattern |-> Pattern(params), callArgs |-> CallArgs(params)]

Range(s) == {s[i] : i \in DOMAIN s}

IndexOf(s, x) == CHOOSE i \in DOMAIN s : s[i] = x

\* binding the tuple's fields to the pattern's identifiers
Destructure(impl, t) ==
    [p \in Range(impl.pattern) |-> t[IndexOf(impl.pattern, p)]]

\* the positional arguments built from the bound identifiers
Forward(impl, env) ==
    [i \in 1..Len(impl.callArgs) |-> env[impl.callArgs[i]]]

----------------------------------------------------------------------------
(* Candidate functions *)

FreeBodies == {"const", "err", "panic", "panic_call"}

\* free functions and closures (receiver FALSE) and method paths such as
\* Test::bleh (receiver TRUE), each with `params` declared parameters
Funcs ==
    [params : 0..MaxParams, receiver : {FALSE}, body : {"digest"}]
    \cup [params : 0..MaxSmall, receiver : {FALSE}, body : FreeBodies]
    \cup [params : 0..MaxParams, receiver : {TRUE}, body : {"field"}]

\* faulty variant: the receiver is taken as already bound, not as a parameter
FnParamsBound(f) == [i \in 1..f.params |-> "T"]

\* the parameter list of the function's Fn signature: for a method path the
\* receiver is its first parameter
FnParams(f) ==
    (IF f.receiver THEN <<"&Self">> ELSE <<>>) \o [i \in 1..f.params |-> "T"]

FnArity(f) == Len(FnParams(f))

\* the instantiations whose bound Fn($($param),*) -> Fut the function meets
SelectImpl(f) ==
    LET n == FnArity(f)
    IN {i \in DOMAIN Instantiations : ary(Instantiations[i]).bound = n}

TheImpl(f) == ary(Instantiations[CHOOSE i \in SelectImpl(f) : TRUE])

None == [kind |-> "none", val |-> 0]
Ok(v) == [kind |-> "ok", val |-> v]
Err(v) == [kind |-> "err", val |-> v]
Panic == [kind |-> "panic", val |-> 0]

RECURSIVE Digest(_)
Digest(s) == IF s = <<>> THEN 0 ELSE Len(s) * s[Len(s)] + Digest(SubSeq(s, 1, Len(s) - 1))

\* what the function, applied to the positional arguments a and awaited,
\* produces
Body(f, a) ==
    CASE f.body = "const" -> Ok(4)
      [] f.body = "digest" -> Ok(Digest(a))
      [] f.body = "err" -> Err(Digest(a))
      [] f.body = "field" -> Ok(a[1])
      [] OTHER -> Panic

\* a function that is not an async fn may panic before it returns a future
InvokePanics(f) == f.body = "panic_call"

\* argument tuples of arity n; the fields of one tuple are pairwise different
ArgTuples(n) == {[i \in 1..n |-> k + i] : k \in 0..(NBases - 1)}

----------------------------------------------------------------------------
(* The future returned by call *)

\* faulty variant: call invokes the function and hands out its future
CallStateStatic == [outer |-> "created", inner |-> "pending", invoked |-> 1]

\* what call has done when it returns: the async block is boxed, not run
CallState == [outer |-> "created", inner |-> "none", invoked |-> 0]

\* faulty variant: the arguments are kept in one slot shared by all calls
CapturedShared(a, c) == a[1]

\* the async block owns its own args
Captured(a, c) == a[c]

\* faulty variant: every poll runs the async block from its start
NeedsInvokeAlways(o) == TRUE

\* whether this poll starts the async block (destructure, invoke)
NeedsInvoke(o) == o = "created"

\* one poll of the function's future
InnerPoll(f, a, ready) ==
    IF ~ready THEN [tag |-> "pending", out |-> None]
    ELSE IF Body(f, a).kind = "panic" THEN [tag |-> "panic", out |-> Panic]
    ELSE [tag |-> "ready", out |-> Body(f, a)]

\* faulty variant: the awaited value is altered on its way out
AwaitOutputAltered(o) == IF o.kind = "ok" THEN [kind |-> "ok", val |-> o.val + 1] ELSE o

\* the value of the expression `fut.await`
AwaitOutput(o) == o

\* faulty variant: the function's future is returned as the output, not awaited
OuterPollNoAwait(r) ==
    IF r.tag = "pending"
    THEN [tag |-> "ready", out |-> [kind |-> "future", val |-> 0]]
    ELSE [tag |-> r.tag, out |-> r.out]

\* faulty variant: a panic of the function is caught and turned into an error value
OuterPollCatch(r) ==
    IF r.tag = "panic"
    THEN [tag |-> "ready", out |-> [kind |-> "err", val |-> 0]]
    ELSE [tag |-> r.tag, out |-> r.out]

\* what the poll of the boxed future answers, given the answer of the
\* function's future it is awaiting
OuterPoll(r) == [tag |-> r.tag, out |-> AwaitOutput(r.out)]

\* faulty variant: the function's future outlives the boxed future
DropInnerLeak(s) == s

\* dropping the boxed future drops what the async block holds
DropInner(s) == IF s = "none" THEN "none" ELSE "dropped"

OuterOf(tag) ==
    CASE tag = "pending" -> "awaiting"
      [] tag = "ready" -> "ready"
      [] OTHER -> "panicked"

InnerOf(tag) ==
    CASE tag = "pending" -> "pending"
      [] tag = "ready" -> "ready"
      [] OTHER -> "panicked"

----------------------------------------------------------------------------
(* The state machine *)

Init ==
    /\ func \in Funcs
    /\ resolved = "unchecked"
    /\ outer = [c \in Calls |-> "none"]
    /\ args = [c \in Calls |-> <<>>]
    /\ recv = [c \in Calls |-> <<>>]
    /\ invoked = [c \in Calls |-> 0]
    /\ inner = [c \in Calls |-> "none"]
    /\ polls = [c \in Calls |-> 0]
    /\ produced = [c \in Calls |-> None]
    /\ result = [c \in Calls |-> None]

\* the compiler resolves `func: AsyncFn<Args, Output>` (assert_impl_fn(func))
TypeCheck ==
    /\ resolved = "unchecked"
    /\ resolved' = IF SelectImpl(func) # {} THEN "accepted" ELSE "rejected"
    /\ UNCHANGED <<func, outer, args, recv, invoked, inner, polls, produced, result>>

\* func.call(t): returns the boxed future
call(c) ==
    /\ resolved = "accepted"
    /\ outer[c] = "none"
    /\ \A d \in Calls : d < c => outer[d] # "none"
    /\ \E t \in ArgTuples(TheImpl(func).bound) :
        args' = [args EXCEPT ![c] = t]
    /\ outer' = [outer EXCEPT ![c] = CallState.outer]
    /\ inner' = [inner EXCEPT ![c] = CallState.inner]
    /\ invoked' = [invoked EXCEPT ![c] = CallState.invoked]
    /\ UNCHANGED <<func, resolved, recv, polls, produced, result>>

\* when the boxed future of call c can be polled, with the function's future
\* answering Ready (ready) or Pending: it has been returned, has not completed
\* and has not been dropped; nothing of any other call is consulted
PollGuard(c, ready) ==
    /\ outer[c] \in {"created", "awaiting"}
    /\ ~ready => polls[c] < MaxPending

\* the caller (its executor) polls the boxed future once
Poll(c) ==
    /\ \E ready \in BOOLEAN :
        /\ PollGuard(c, ready)
        /\ LET first == NeedsInvoke(outer[c])
               callPanics == first /\ InvokePanics(func)
           IN \E a \in {IF first
                        THEN Forward(TheImpl(func), Destructure(TheImpl(func), Captured(args, c)))
                        ELSE recv[c]} :
              \E r \in {IF callPanics
                        THEN [tag |-> "panic", out |-> Panic]
                        ELSE InnerPoll(func, a, ready)} :
              \E o \in {OuterPoll(r)} :
                /\ invoked' = [invoked EXCEPT ![c] = IF first THEN @ + 1 ELSE @]
                /\ recv' = [recv EXCEPT ![c] = a]
                /\ polls' = [polls EXCEPT ![c] = IF callPanics THEN @ ELSE @ + 1]
                /\ inner' = [inner EXCEPT ![c] = IF callPanics THEN "none" ELSE InnerOf(r.tag)]
                /\ produced' = [produced EXCEPT ![c] = r.out]
                /\ outer' = [outer EXCEPT ![c] = OuterOf(o.tag)]
                /\ result' = [result EXCEPT ![c] = o.out]
    /\ UNCHANGED <<func, resolved, args>>

\* the caller drops the boxed future before it completed
Drop(c) ==
    /\ outer[c] \in {"created", "awaiting"}
    /\ outer' = [outer EXCEPT ![c] = "dropped"]
    /\ inner' = [inner EXCEPT ![c] = DropInner(@)]
    /\ UNCHANGED <<func, resolved, args, recv, invoked, polls, produced, result>>

Next ==
    \/ TypeCheck
    \/ \E c \in Calls : call(c)
    \/ \E c \in Calls : Poll(c)
    \/ \E c \in Calls : Drop(c)

Spec == Init /\ [][Next]_vars

----------------------------------------------------------------------------
(* Properties *)

Live == {"created", "awaiting"}

\* C1. Pass-through identity: a call driven to completion yields exactly what
\* the function applied directly to the fields of the tuple yields when
\* awaited, for every arity.
C1_PassThrough ==
    \A c \in Calls : outer[c] = "ready" => result[c] = Body(func, args[c])

C1_Witness ==
    \E c \in Calls :
        /\ outer[c] = "ready"
        /\ func.body = "digest"
        /\ Len(args[c]) = MaxArity
        /\ result[c].val > 0

\* C2. Positional forwarding: the function receives as many arguments as the
\* tuple has fields, and its i-th argument is the tuple's i-th field, whatever
\* the arity (none for the empty tuple).
C2_PositionalForwarding ==
    \A c \in Calls :
        invoked[c] > 0 =>
            /\ Len(recv[c]) = Len(args[c])
            /\ Len(recv[c]) = FnArity(func)
            /\ \A i \in 1..Len(args[c]) : recv[c][i] = args[c][i]

C2_Witness ==
    \E c \in Calls :
        /\ invoked[c] = 1
        /\ Len(recv[c]) = MaxArity
        /\ recv[c][1] # recv[c][MaxArity]

\* C3. Arity coverage: the implementations cover exactly the arities 0..12,
\* one each, over the tuple of that arity; a function of any other arity is
\* rejected and never called with a shorter or longer tuple.
C3_ArityCoverage ==
    /\ {ary(Instantiations[i]).bound : i \in DOMAIN Instantiations} = 0..MaxArity
    /\ LET n == FnArity(func)
       IN /\ resolved # "unchecked" =>
              /\ resolved = "accepted" <=> n \in 0..MaxArity
              /\ resolved = "accepted" =>
                  /\ Cardinality(SelectImpl(func)) = 1
                  /\ Len(TheImpl(func).pattern) = n
          /\ \A c \in Calls :
              outer[c] # "none" => resolved = "accepted" /\ Len(args[c]) = n

C3_Witness ==
    /\ resolved = "rejected"
    /\ ~func.receiver
    /\ func.params = MaxArity + 1

\* C4. The call awaits internally: it is complete only when the function's
\* future is, what it yields is that future's output and never the future,
\* and it is pending whenever the function's future is pending.
C4_AwaitsInternally ==
    \A c \in Calls :
        /\ outer[c] = "ready" =>
            /\ inner[c] = "ready"
            /\ result[c].kind \in {"ok", "err"}
            /\ result[c] = produced[c]
        /\ inner[c] = "pending" => outer[c] = "awaiting" /\ result[c] = None

C4_Witness ==
    \E c \in Calls : outer[c] = "awaiting" /\ inner[c] = "pending" /\ polls[c] = MaxPending

\* C5. Failure pass-through: a call ends in an error value or a panic exactly
\* when the function or its future produced that error value or panic, and
\* the caller sees it as produced.
C5_FailurePassThrough ==
    \A c \in Calls :
        /\ outer[c] = "panicked" <=> produced[c].kind = "panic"
        /\ result[c].kind = "err" <=> produced[c].kind = "err"
        /\ (result[c].kind \in {"err", "panic"} \/ produced[c].kind \in {"err", "panic"})
            => result[c] = produced[c]
        /\ (outer[c] = "panicked" \/ result[c].kind \notin {"none", "ok"})
            => Body(func, args[c]).kind # "ok"

C5_Witness ==
    \E c \in Calls :
        /\ outer[c] = "panicked"
        /\ inner[c] = "panicked"
        /\ polls[c] > 1
        /\ result[c].kind = "panic"

C7_Independence ==
    [][/\ func' = func
       /\ \A c \in Calls :
            /\ outer[c] \in Live => \E ready \in BOOLEAN : PollGuard(c, ready)
            /\ callVars(c)' # callVars(c) =>
                /\ \A d \in Calls \ {c} : callVars(d)' = callVars(d)
                /\ invoked'[c] > 0 => recv'[c] = args'[c]
                /\ outer'[c] = "ready" => result'[c] = Body(func, args'[c])
      ]_vars

C7_Witness ==
    /\ outer[1] = "awaiting"
    /\ outer[2] = "ready"
    /\ args[1] # args[2]
    /\ result[2] = Body(func, args[2])
    /\ func.body = "digest"

C9_SingleLazyInvocation ==
    \A c \in Calls :
        /\ invoked[c] <= 1
        /\ outer[c] \in {"none", "created"} => invoked[c] = 0
        /\ outer[c] \in {"awaiting", "ready", "panicked"} => invoked[c] = 1
        /\ polls[c] > 0 => invoked[c] = 1

C9_Witness ==
    \E c \in Calls : outer[c] = "ready" /\ polls[c] = MaxPending + 1 /\ invoked[c] = 1

\* C10. Cancellation by dropping: when the boxed future is dropped before it
\* completed, the function's future (if there is one) is dropped with it, the
\* call never changes again and never has a result, the drop invokes and polls
\* nothing, and the other calls and the callable are as they were (a live one
\* can still be polled).
C10_DropCancels ==
    [][/\ func' = func
       /\ \A c \in Calls :
            /\ outer'[c] = "dropped" =>
                /\ inner'[c] \in {"none", "dropped"}
                /\ result'[c] = None
            /\ outer[c] = "dropped" => callVars(c)' = callVars(c)
            /\ (outer[c] # "dropped" /\ outer'[c] = "dropped") =>
                /\ outer[c] \in Live
                /\ invoked'[c] = invoked[c]
                /\ polls'[c] = polls[c]
                /\ \A d \in Calls \ {c} :
                    /\ callVars(d)' = callVars(d)
                    /\ outer'[d] \in Live => (\E ready \in BOOLEAN : PollGuard(d, ready))'
      ]_vars

C10_Witness ==
    \E c, d \in Calls :
        /\ outer[c] = "dropped"
        /\ inner[c] = "dropped"
        /\ outer[d] = "ready"

====
